---- MODULE Spec2Model ----
(***************************************************************************)
(* gitgauge analysis service: the batch-and-synthesize pipeline of         *)
(* src/analysis_service/app.py (create_batches and the /analyze handler)   *)
(* over the durable tier of src/analysis_service/models.py.                *)
(*                                                                         *)
(* A file content is abstracted to its sizes: chars = len(content) and     *)
(* bytes = len(content.encode('utf-8')).  A FileSet (a Python dict, which  *)
(* keeps insertion order and has unique keys) is a sequence of file        *)
(* records whose paths are pairwise distinct.  A text (an oracle answer, a *)
(* report) is a sequence of tokens in which "\n" is the line break.        *)
(***************************************************************************)
EXTENDS Integers, Sequences, FiniteSets, TLC

\* ------------------------------------------------------------------ bounds
MaxBatchFiles == 3
MaxFiles == 2
MaxConnects == 3
MaxDefaultFiles == 6

\* --------------------------------------------------------------- constants
FileOverhead == 100
DefaultMaxTokensPerBatch == 6000
DefaultMaxFileSizeKb == 5

\* ------------------------------------------------------------- the Batcher
\* Content lengths and budgets that make every branch of create_batches
\* happen: a file that fits, one that overflows the running batch, one whose
\* tokens alone exceed the budget, one whose tokens fit but whose
\* contribution (tokens + 100) does not.
BatchLens == {100, 23600, 23800, 40000}
Budgets == {50, 200, DefaultMaxTokensPerBatch}

MkFile(p, c, b) == [path |-> p, chars |-> c, bytes |-> b]

BatchFileSets ==
  UNION { { [i \in 1..n |-> MkFile(i, f[i], f[i])] : f \in [1..n -> BatchLens] }
          : n \in 0..MaxBatchFiles }

estimate_tokens(chars) == chars \div 4

IsOversized(file_tokens, max_tokens) == file_tokens > max_tokens

FitsCurrent(current_batch_tokens, formatted_file_tokens, max_tokens) ==
  current_batch_tokens + formatted_file_tokens <= max_tokens

\* `if current_batch: batches.append(current_batch)`
\* (variants: without the `if current_batch` guard; without the append)
FlushBatch_always(batches, current_batch) == Append(batches, current_batch)
FlushBatch_drop(batches, current_batch) == batches
FlushBatch(batches, current_batch) ==
  IF current_batch # <<>> THEN Append(batches, current_batch) ELSE batches

BatchLoopInit == [batches |-> <<>>, current_batch |-> <<>>, current_batch_tokens |-> 0]

\* One iteration of `for file_path, content in contents.items()`.
\* (variant of the oversized branch: the file joins the running batch)
OversizedBranch_keep(st, file) ==
  [batches |-> Append(st.batches, Append(st.current_batch, file)),
   current_batch |-> <<>>,
   current_batch_tokens |-> 0]
OversizedBranch(st, file) ==
  [batches |-> Append(FlushBatch(st.batches, st.current_batch), <<file>>),
   current_batch |-> <<>>,
   current_batch_tokens |-> IF st.current_batch # <<>> THEN 0 ELSE st.current_batch_tokens]

BatchLoopStep(st, file, max_tokens) ==
  LET file_tokens == estimate_tokens(file.chars)
      formatted_file_tokens == file_tokens + FileOverhead
  IN  IF IsOversized(file_tokens, max_tokens)
        THEN OversizedBranch(st, file)
      ELSE IF FitsCurrent(st.current_batch_tokens, formatted_file_tokens, max_tokens)
        THEN [batches |-> st.batches,
              current_batch |-> Append(st.current_batch, file),
              current_batch_tokens |-> st.current_batch_tokens + formatted_file_tokens]
      ELSE [batches |-> FlushBatch(st.batches, st.current_batch),
            current_batch |-> <<file>>,
            current_batch_tokens |-> formatted_file_tokens]

RECURSIVE BatchLoop(_, _, _, _)
BatchLoop(contents, k, st, max_tokens) ==
  IF k > Len(contents) THEN st
  ELSE BatchLoop(contents, k + 1, BatchLoopStep(st, contents[k], max_tokens), max_tokens)

create_batches(contents, max_tokens) ==
  LET st == BatchLoop(contents, 1, BatchLoopInit, max_tokens)
  IN  FlushBatch(st.batches, st.current_batch)

\* ------------------------------------------------------------------ texts
NL == "\n"

\* text.split("\n")[0]
RECURSIVE FirstLineFrom(_, _)
FirstLineFrom(text, k) ==
  IF k > Len(text) \/ text[k] = NL THEN SubSeq(text, 1, k - 1)
  ELSE FirstLineFrom(text, k + 1)
FirstLine(text) == FirstLineFrom(text, 1)

\* "\n\n".join(batch_summaries)
RECURSIVE JoinBlank(_)
\* (variant: the summaries joined last first)
JoinBlank_reversed(summaries) ==
  IF summaries = <<>> THEN <<>>
  ELSE IF Len(summaries) = 1 THEN summaries[1]
  ELSE JoinBlank(Tail(summaries)) \o <<NL, NL>> \o summaries[1]
JoinBlank(summaries) ==
  IF summaries = <<>> THEN <<>>
  ELSE IF Len(summaries) = 1 THEN summaries[1]
  ELSE summaries[1] \o <<NL, NL>> \o JoinBlank(Tail(summaries))

FallbackHeader == <<"# Repository Analysis Summary">>
FallbackNote == <<"[Note: Final synthesis failed, showing individual file summaries]">>

\* f"# Repository Analysis Summary\n\n{all_summaries}\n\n[Note: ...]"
FallbackReport(all_summaries) ==
  FallbackHeader \o <<NL, NL>> \o all_summaries \o <<NL, NL>> \o FallbackNote

\* analysis_text.split("\n")[0] if analysis_text else "Analysis completed"
SummaryOf(analysis_text) ==
  IF analysis_text # <<>> THEN FirstLine(analysis_text) ELSE <<"Analysis completed">>

\* --------------------------------------------------- the pipeline's inputs
Reqs == {1, 2}

Keys == { [owner |-> "o", repo |-> "r", ref |-> "main"],
          [owner |-> "o", repo |-> "r", ref |-> "dev"] }

\* MAX_FILE_SIZE_KB of the environment: the default, and a ceiling under which
\* two files do not share a batch of 6000 tokens.
SizeCeilingsKb == {DefaultMaxFileSizeKb, 20}

\* Contents by size: a small file, and one of 20 KB (above the default
\* ceiling; 5120 tokens, so that two of them do not share a batch).
SmallContent == [chars |-> 400, bytes |-> 400]
BigContent == [chars |-> 20480, bytes |-> 20480]

\* The FileSets requests carry: up to MaxFiles files, all of them big except
\* possibly the first.
PipelineFileSets ==
  UNION { { [i \in 1..n |-> MkFile(i, (IF i = 1 THEN c ELSE BigContent).chars,
                                      (IF i = 1 THEN c ELSE BigContent).bytes)]
            : c \in {SmallContent, BigContent} }
          : n \in 0..MaxFiles }

\* What the completion oracle may answer to the synthesis call: an empty
\* completion, or two lines.  Its answer to a batch names the batch, so that
\* the answers to different batches differ.
OracleTexts == { <<>>, <<"A", NL, "B">> }
OracleSummary(i) ==
  CASE i = 1 -> <<"S1", NL, "d1">>
    [] i = 2 -> <<"S2">>
    [] OTHER -> <<"S3", NL, NL, "d3">>

Requests ==
  [key : Keys, force_reanalysis : BOOLEAN, contents : PipelineFileSets]

\* ------------------------------------------------------ the size filtering
RECURSIVE FilterFrom(_, _, _, _)
FilterFrom(contents, k, limit, keepSmall) ==
  IF k > Len(contents) THEN <<>>
  ELSE IF (contents[k].bytes <= limit) = keepSmall
    THEN <<contents[k]>> \o FilterFrom(contents, k + 1, limit, keepSmall)
  ELSE FilterFrom(contents, k + 1, limit, keepSmall)

\* (variant: the ceiling read as megabytes)
MaxFileSizeBytes_mb(max_file_size_kb) == max_file_size_kb * 1024 * 1024
MaxFileSizeBytes(max_file_size_kb) == max_file_size_kb * 1024
\* (variant: no file is left out)
filtered_contents_unfiltered(contents, max_file_size_kb) == contents
filtered_contents_of(contents, max_file_size_kb) ==
  FilterFrom(contents, 1, MaxFileSizeBytes(max_file_size_kb), TRUE)
skipped_files_of(contents, max_file_size_kb) ==
  FilterFrom(contents, 1, MaxFileSizeBytes(max_file_size_kb), FALSE)

\* ------------------------------------------------------- the durable tier
\* A row of table "analyses" (models.py); created_at / updated_at are left out.
KeyOf(row) == [owner |-> row.owner, repo |-> row.repo, ref |-> row.ref]

\* db.query(Analysis).filter(owner ==, repo ==, ref ==): the committed rows of
\* the key (READ COMMITTED: another session's unflushed or uncommitted write
\* is not seen).
RowsOfKey(rows, key) == { row \in rows : KeyOf(row) = key }

\* UniqueConstraint('owner', 'repo', 'ref'): an INSERT of a key that a
\* committed row holds raises IntegrityError.
\* (variant: a table created without the constraint)
UniqueViolation_none(rows, key) == FALSE
UniqueViolation(rows, key) == RowsOfKey(rows, key) # {}

DataCols == {"summary", "analysis", "files_analyzed", "batches_processed", "batches_failed"}

\* existing.summary = ...; existing.analysis = ...; ...: the unit of work
\* puts in the UPDATE the attributes whose new value differs from the loaded one.
ChangedCols(loaded, new) == { c \in DataCols : new[c] # loaded[c] }

ApplyUpdate(row, upd) ==
  [c \in DOMAIN row |-> IF c \in upd.cols THEN upd.vals[c] ELSE row[c]]

NoTx == [op |-> "none"]

\* The durable tier outlives the service: when the service starts the table is
\* empty, or holds the row an earlier run of the service stored for a key (one
\* small file, one batch, synthesis answered "A\nB").
StoredBefore ==
  { {},
    { [id |-> 1, owner |-> "o", repo |-> "r", ref |-> "main",
       summary |-> <<"A">>, analysis |-> <<"A", NL, "B">>,
       files_analyzed |-> 1, batches_processed |-> 1, batches_failed |-> 0] } }

\* ------------------------------------------------------------ the response
\* result = {...} of the fresh path (lines 365-379)
\* (variant: batches_processed counts the successes only, batches_failed is not reported)
FreshResult_noCounts(request, analysis_text, n_filtered, n_skipped, n_batches, failed_batches) ==
  [summary |-> SummaryOf(analysis_text),
   analysis |-> analysis_text,
   repository |-> [owner |-> request.key.owner, repo |-> request.key.repo,
                   ref |-> request.key.ref,
                   files_analyzed |-> n_filtered,
                   files_skipped |-> n_skipped,
                   total_files |-> Len(request.contents),
                   batches_processed |-> n_batches - failed_batches,
                   batches_failed |-> 0],
   cached |-> FALSE]
FreshResult(request, analysis_text, n_filtered, n_skipped, n_batches, failed_batches) ==
  [summary |-> SummaryOf(analysis_text),
   analysis |-> analysis_text,
   repository |-> [owner |-> request.key.owner, repo |-> request.key.repo,
                   ref |-> request.key.ref,
                   files_analyzed |-> n_filtered,
                   files_skipped |-> n_skipped,
                   total_files |-> Len(request.contents),
                   batches_processed |-> n_batches,
                   batches_failed |-> failed_batches],
   cached |-> FALSE]

\* (variant: the stored result returned without the cache-hit mark)
CachedResult_notMarked(row) ==
  [summary |-> row.summary,
   analysis |-> row.analysis,
   repository |-> [owner |-> row.owner, repo |-> row.repo, ref |-> row.ref,
                   files_analyzed |-> row.files_analyzed,
                   batches_processed |-> row.batches_processed,
                   batches_failed |-> row.batches_failed],
   cached |-> FALSE]
\* result = {...} of the cache hit (lines 234-246):
\* (summary or analysis.split("\n")[0]) if analysis else "Analysis completed"
CachedResult(row) ==
  [summary |-> IF row.analysis # <<>>
                 THEN (IF row.summary # <<>> THEN row.summary ELSE FirstLine(row.analysis))
                 ELSE <<"Analysis completed">>,
   analysis |-> row.analysis,
   repository |-> [owner |-> row.owner, repo |-> row.repo, ref |-> row.ref,
                   files_analyzed |-> row.files_analyzed,
                   batches_processed |-> row.batches_processed,
                   batches_failed |-> row.batches_failed],
   cached |-> TRUE]

\* Analysis(owner=..., ..., batches_failed=failed_batches) (lines 397-406), and
\* the values assigned to an existing row (lines 389-393)
RowValues(result) ==
  [summary |-> result.summary,
   analysis |-> result.analysis,
   files_analyzed |-> result.repository.files_analyzed,
   batches_processed |-> result.repository.batches_processed,
   batches_failed |-> result.repository.batches_failed]

NewRow(id, key, result) ==
  [id |-> id, owner |-> key.owner, repo |-> key.repo, ref |-> key.ref,
   summary |-> result.summary,
   analysis |-> result.analysis,
   files_analyzed |-> result.repository.files_analyzed,
   batches_processed |-> result.repository.batches_processed,
   batches_failed |-> result.repository.batches_failed]

NoResponse == [status |-> "none"]
OkResponse(body) == [status |-> "ok", body |-> body]

\* raise HTTPException(...) inside the handler's try, caught by its
\* `except Exception` and raised again as a 500 (lines 420-425)
AllFilesExceed == [status_code |-> 400, detail |-> "All files exceed the size limit. No files to analyze."]
ApiKeyNotSet == [status_code |-> 500, detail |-> "GROQ_API_KEY environment variable is not set"]
AllBatchesFailed == [status_code |-> 500, detail |-> "All batches failed to process"]
ErrorResponse(e) ==
  [status |-> "error", status_code |-> 500,
   detail |-> <<"Failed to analyze code: ", e.status_code, e.detail>>]

\* ------------------------------------------------------------------- state
VARIABLES
  bIn,      \* Batcher harness: the FileSet handed to create_batches
  bMax,     \* Batcher harness: max_tokens_per_batch
  bOut,     \* Batcher harness: the batches returned
  bPc,      \* Batcher harness: "ready" before the call, "done" after it
  env,      \* the process environment: GROQ_API_KEY set?, MAX_FILE_SIZE_KB
  db,       \* the committed rows of table "analyses"
  nextId,   \* the sequence behind Analysis.id
  tx,       \* per request: the write its session has flushed and not committed
  pc,       \* per request: where analyze_code stands
  request,  \* per request: the AnalyzeRequest
  filtered_contents, \* per request
  skipped_files,     \* per request
  batches,           \* per request
  idx,               \* per request: the batch the map loop is at (enumerate from 1)
  batch_summaries,   \* per request
  failed_batches,    \* per request
  result,            \* per request: the result dict once built
  existing,          \* per request: the row loaded at line 382, <<>> for None
  response,          \* per request: what the caller got
  calls,             \* per request (history): the oracle calls made, in order
  persist,           \* per request (history): how the durable write ended
  writerOf,          \* per key (history): the request whose commit wrote the row last
  redis_client,      \* cache.py: the module global _redis_client, "None" or "Redis"
  redis_up,          \* fast tier: can the Redis server be reached?
  redis_data,        \* fast tier: per cache key the value stored, <<>> for no entry
  cache_out,         \* fast tier (history): the last call of cache.py and how it ended
  connects,          \* fast tier (history): the connection attempts made so far
  asked              \* backend, per request (history): the ref the caller asked for

bvars == <<bIn, bMax, bOut, bPc>>
cvars == <<redis_client, redis_up, redis_data, cache_out, connects>>
locals == <<filtered_contents, skipped_files, batches, idx, batch_summaries,
            failed_batches, result, existing>>
pvars == <<env, db, nextId, tx, pc, request, filtered_contents, skipped_files, batches,
           idx, batch_summaries, failed_batches, result, existing, response, calls,
           persist, writerOf, asked>>
vars == <<bIn, bMax, bOut, bPc, env, db, nextId, tx, pc, request, filtered_contents,
          skipped_files, batches, idx, batch_summaries, failed_batches, result,
          existing, response, calls, persist, writerOf,
          redis_client, redis_up, redis_data, cache_out, connects, asked>>

NoRequest == [key |-> [owner |-> "", repo |-> "", ref |-> ""],
              force_reanalysis |-> FALSE, contents |-> <<>>]
NoResult == [cached |-> FALSE]

NotAsked == [ref |-> "", default_branch |-> <<>>, through |-> "none"]

PipelineIdle ==
  /\ tx = [r \in Reqs |-> NoTx]
  /\ pc = [r \in Reqs |-> "Idle"]
  /\ request = [r \in Reqs |-> NoRequest]
  /\ filtered_contents = [r \in Reqs |-> <<>>]
  /\ skipped_files = [r \in Reqs |-> <<>>]
  /\ batches = [r \in Reqs |-> <<>>]
  /\ idx = [r \in Reqs |-> 1]
  /\ batch_summaries = [r \in Reqs |-> <<>>]
  /\ failed_batches = [r \in Reqs |-> 0]
  /\ result = [r \in Reqs |-> NoResult]
  /\ existing = [r \in Reqs |-> <<>>]
  /\ response = [r \in Reqs |-> NoResponse]
  /\ calls = [r \in Reqs |-> <<>>]
  /\ persist = [r \in Reqs |-> "none"]
  /\ writerOf = [k \in Keys |-> 0]
  /\ asked = [r \in Reqs |-> NotAsked]

\* cache.py line 10 at import: no client yet, no call made.  The server is
\* reachable and holds no entry.
NoCacheCall == [op |-> "none"]
CacheIdle ==
  /\ redis_client = "None"
  /\ redis_up = TRUE
  /\ redis_data = [k \in Keys |-> <<>>]
  /\ cache_out = NoCacheCall
  /\ connects = 0

\* ------------------------------------------------- the Batcher's harness
InitBatch ==
  /\ bIn = <<>>
  /\ bMax = DefaultMaxTokensPerBatch
  /\ bOut = <<>>
  /\ bPc = "ready"
  /\ env = [api_key |-> TRUE, max_file_size_kb |-> DefaultMaxFileSizeKb]
  /\ db = {}
  /\ nextId = 1
  /\ PipelineIdle
  /\ CacheIdle

BatchCall ==
  /\ bPc = "ready"
  /\ bOut' = create_batches(bIn, bMax)
  /\ bPc' = "done"
  /\ UNCHANGED <<bIn, bMax>>
  /\ UNCHANGED pvars
  /\ UNCHANGED cvars

BatchNewInput ==
  /\ bPc = "done"
  /\ \E fs \in BatchFileSets, m \in Budgets :
       /\ bIn' = fs
       /\ bMax' = m
  /\ bOut' = <<>>
  /\ bPc' = "ready"
  /\ UNCHANGED pvars
  /\ UNCHANGED cvars

NextBatch == BatchCall \/ BatchNewInput


SpecBatch == InitBatch /\ [][NextBatch]_vars

\* ----------------------------------------------- the fast tier (cache.py)
\* redis.exceptions: ConnectionError and TimeoutError derive from RedisError.
Superclasses(exc) ==
  CASE exc = "ConnectionError" -> {"ConnectionError", "RedisError", "Exception"}
    [] exc = "TimeoutError" -> {"TimeoutError", "RedisError", "Exception"}
    [] OTHER -> {exc, "Exception"}

\* `except (A, B)` catches an exception that is an A or a B.
\* (variant: a handler that names the class itself only)
IsCaught_exact(exc, handled) == exc \in handled
IsCaught(exc, handled) == Superclasses(exc) \cap handled # {}

\* What a server that cannot be reached makes redis-py raise.
Unreachable == {"ConnectionError", "TimeoutError"}

\* The payloads set_cached_analysis is given (they serialize).
CacheData == {"result1", "result2"}

\* get_redis_client() (lines 13-31), called with the global `client`, the
\* server reachable or not, and the exception a failed ping raises.  The
\* global is assigned at line 18, before the ping, and reset by the handler.
get_redis_client(client, up, exc) ==
  IF client # "None"
    THEN [client |-> client, attempted |-> FALSE, raised |-> FALSE]
  ELSE IF up
    THEN [client |-> "Redis", attempted |-> TRUE, raised |-> FALSE]
  ELSE IF IsCaught(exc, {"ConnectionError", "RedisError"})
    THEN [client |-> "None", attempted |-> TRUE, raised |-> FALSE]
  ELSE [client |-> "Redis", attempted |-> TRUE, raised |-> TRUE]

\* The part of a call after get_redis_client(): nothing when that raised or
\* gave None, else one command, which raises `exc` when the server cannot be
\* reached; `handled` is what the function's `except` names.
CommandRuns(g) == ~g.raised /\ g.client # "None"
CommandRaises(g, up, exc, handled) ==
  CommandRuns(g) /\ ~up /\ ~IsCaught(exc, handled)
CommandOk(g, up) == CommandRuns(g) /\ up

\* The global and the attempt count after get_redis_client().
ClientStep(g) ==
  /\ g.attempted => connects < MaxConnects
  /\ redis_client' = g.client
  /\ connects' = IF g.attempted THEN connects + 1 ELSE connects

\* get_cached_analysis(owner, repo, ref) (lines 38-55)
GetCachedAnalysis(k) ==
  /\ \E exc \in Unreachable :
       LET g == get_redis_client(redis_client, redis_up, exc)
       IN  /\ ClientStep(g)
           /\ cache_out' =
                [op |-> "get", key |-> k, up |-> redis_up,
                 ret |-> IF CommandOk(g, redis_up) THEN redis_data[k] ELSE <<>>,
                 raised |-> g.raised \/ CommandRaises(g, redis_up, exc,
                                                      {"RedisError", "JSONDecodeError"})]
  /\ UNCHANGED <<redis_up, redis_data>>
  /\ UNCHANGED bvars
  /\ UNCHANGED pvars

\* set_cached_analysis(owner, repo, ref, analysis_data, ttl) (lines 58-71)
SetCachedAnalysis(k, data) ==
  /\ \E exc \in Unreachable :
       LET g == get_redis_client(redis_client, redis_up, exc)
       IN  /\ ClientStep(g)
           /\ redis_data' = IF CommandOk(g, redis_up)
                              THEN [redis_data EXCEPT ![k] = <<data>>]
                              ELSE redis_data
           /\ cache_out' =
                [op |-> "set", key |-> k, up |-> redis_up,
                 ret |-> CommandOk(g, redis_up),
                 raised |-> g.raised \/ CommandRaises(g, redis_up, exc,
                                                      {"RedisError", "TypeError"})]
  /\ UNCHANGED redis_up
  /\ UNCHANGED bvars
  /\ UNCHANGED pvars

\* delete_cached_analysis(owner, repo, ref) (lines 74-89)
DeleteCachedAnalysis(k) ==
  /\ \E exc \in Unreachable :
       LET g == get_redis_client(redis_client, redis_up, exc)
       IN  /\ ClientStep(g)
           /\ redis_data' = IF CommandOk(g, redis_up)
                              THEN [redis_data EXCEPT ![k] = <<>>]
                              ELSE redis_data
           /\ cache_out' =
                [op |-> "delete", key |-> k, up |-> redis_up,
                 ret |-> CommandOk(g, redis_up) /\ redis_data[k] # <<>>,
                 raised |-> g.raised \/ CommandRaises(g, redis_up, exc, {"RedisError"})]
  /\ UNCHANGED redis_up
  /\ UNCHANGED bvars
  /\ UNCHANGED pvars

\* The environment: the server becomes unreachable, or reachable again.
RedisConnectivity ==
  /\ redis_up' = ~redis_up
  /\ UNCHANGED <<redis_client, redis_data, cache_out, connects>>
  /\ UNCHANGED bvars
  /\ UNCHANGED pvars

\* The environment: the ttl of an entry (line 66, setex) runs out.
RedisExpire(k) ==
  /\ redis_data[k] # <<>>
  /\ redis_data' = [redis_data EXCEPT ![k] = <<>>]
  /\ UNCHANGED <<redis_client, redis_up, cache_out, connects>>
  /\ UNCHANGED bvars
  /\ UNCHANGED pvars

InitCache ==
  /\ bIn = <<>>
  /\ bMax = DefaultMaxTokensPerBatch
  /\ bOut = <<>>
  /\ bPc = "ready"
  /\ env = [api_key |-> TRUE, max_file_size_kb |-> DefaultMaxFileSizeKb]
  /\ db = {}
  /\ nextId = 1
  /\ PipelineIdle
  /\ redis_client = "None"
  /\ redis_up \in BOOLEAN
  /\ redis_data = [k \in Keys |-> <<>>]
  /\ cache_out = NoCacheCall
  /\ connects = 0

NextCache ==
  \/ \E k \in Keys : GetCachedAnalysis(k)
  \/ \E k \in Keys, data \in CacheData : SetCachedAnalysis(k, data)
  \/ \E k \in Keys : DeleteCachedAnalysis(k)
  \/ RedisConnectivity
  \/ \E k \in Keys : RedisExpire(k)

SpecCache == InitCache /\ [][NextCache]_vars

\* ------------------------------------------------------------ the pipeline
Init ==
  /\ bIn = <<>>
  /\ bMax = DefaultMaxTokensPerBatch
  /\ bOut = <<>>
  /\ bPc = "ready"
  /\ env \in [api_key : BOOLEAN, max_file_size_kb : SizeCeilingsKb]
  /\ \E rows \in StoredBefore :
       /\ db = rows
       /\ nextId = Cardinality(rows) + 1
  /\ PipelineIdle
  /\ CacheIdle

\* POST /analyze arrives (lines 216-222): a new session, nothing computed yet.
Start(r) ==
  /\ pc[r] = "Idle"
  /\ \E rq \in Requests : request' = [request EXCEPT ![r] = rq]
  /\ pc' = [pc EXCEPT ![r] = "CacheCheck"]
  /\ filtered_contents' = [filtered_contents EXCEPT ![r] = <<>>]
  /\ skipped_files' = [skipped_files EXCEPT ![r] = <<>>]
  /\ batches' = [batches EXCEPT ![r] = <<>>]
  /\ idx' = [idx EXCEPT ![r] = 1]
  /\ batch_summaries' = [batch_summaries EXCEPT ![r] = <<>>]
  /\ failed_batches' = [failed_batches EXCEPT ![r] = 0]
  /\ result' = [result EXCEPT ![r] = NoResult]
  /\ existing' = [existing EXCEPT ![r] = <<>>]
  /\ response' = [response EXCEPT ![r] = NoResponse]
  /\ calls' = [calls EXCEPT ![r] = <<>>]
  /\ persist' = [persist EXCEPT ![r] = "none"]
  /\ UNCHANGED <<env, db, nextId, tx, writerOf>>
  /\ UNCHANGED bvars
  /\ UNCHANGED cvars
  /\ UNCHANGED asked

\* lines 224-252: the read path.
CacheHit(r, row) ==
  /\ response' = [response EXCEPT ![r] = OkResponse(CachedResult(row))]
  /\ pc' = [pc EXCEPT ![r] = "Done"]

\* (variant: a lookup that raised fails the request)
CacheMiss_fails(r) ==
  /\ pc' = [pc EXCEPT ![r] = "Failed"]
  /\ response' = [response EXCEPT ![r] =
                    ErrorResponse([status_code |-> 500, detail |-> "lookup"])]

CacheMiss(r) ==
  /\ pc' = [pc EXCEPT ![r] = "Filtering"]
  /\ UNCHANGED response

CacheCheck(r) ==
  /\ pc[r] = "CacheCheck"
  /\ \/ /\ request[r].force_reanalysis
        /\ CacheMiss(r)
     \/ /\ ~request[r].force_reanalysis
        /\ \E row \in RowsOfKey(db, request[r].key) : CacheHit(r, row)
     \/ /\ ~request[r].force_reanalysis
        /\ RowsOfKey(db, request[r].key) = {}
        /\ CacheMiss(r)
     \/ /\ ~request[r].force_reanalysis      \* the query raises: logged, a miss
        /\ CacheMiss(r)
  /\ UNCHANGED <<env, db, nextId, tx, request, calls, persist, writerOf>>
  /\ UNCHANGED locals
  /\ UNCHANGED bvars
  /\ UNCHANGED cvars
  /\ UNCHANGED asked

\* lines 254-279: the size filtering, and the 400 when nothing is left.
FilterFiles(r) ==
  /\ pc[r] = "Filtering"
  /\ LET kept == filtered_contents_of(request[r].contents, env.max_file_size_kb)
         skipped == skipped_files_of(request[r].contents, env.max_file_size_kb)
     IN  /\ filtered_contents' = [filtered_contents EXCEPT ![r] = kept]
         /\ skipped_files' = [skipped_files EXCEPT ![r] = skipped]
         /\ IF kept = <<>>
              THEN /\ pc' = [pc EXCEPT ![r] = "Failed"]
                   /\ response' = [response EXCEPT ![r] = ErrorResponse(AllFilesExceed)]
              ELSE /\ pc' = [pc EXCEPT ![r] = "Partitioning"]
                   /\ UNCHANGED response
  /\ UNCHANGED <<env, db, nextId, tx, request, batches, idx, batch_summaries,
                 failed_batches, result, existing, calls, persist, writerOf>>
  /\ UNCHANGED bvars
  /\ UNCHANGED cvars
  /\ UNCHANGED asked

\* (variant: the client is built without looking for GROQ_API_KEY)
Partition_noKeyCheck(r) ==
  /\ pc[r] = "Partitioning"
  /\ batches' = [batches EXCEPT ![r] =
                   create_batches(filtered_contents[r], DefaultMaxTokensPerBatch)]
  /\ pc' = [pc EXCEPT ![r] = "Mapping"]
  /\ UNCHANGED <<env, db, nextId, tx, request, filtered_contents, skipped_files, idx,
                 batch_summaries, failed_batches, result, existing, response, calls,
                 persist, writerOf>>
  /\ UNCHANGED bvars
  /\ UNCHANGED cvars
  /\ UNCHANGED asked

\* lines 281-283: get_groq_client(), then create_batches(filtered_contents).
Partition(r) ==
  /\ pc[r] = "Partitioning"
  /\ IF ~env.api_key
       THEN /\ pc' = [pc EXCEPT ![r] = "Failed"]
            /\ response' = [response EXCEPT ![r] = ErrorResponse(ApiKeyNotSet)]
            /\ UNCHANGED batches
       ELSE /\ batches' = [batches EXCEPT ![r] =
                             create_batches(filtered_contents[r], DefaultMaxTokensPerBatch)]
            /\ pc' = [pc EXCEPT ![r] = "Mapping"]
            /\ UNCHANGED response
  /\ UNCHANGED <<env, db, nextId, tx, request, filtered_contents, skipped_files, idx,
                 batch_summaries, failed_batches, result, existing, calls, persist,
                 writerOf>>
  /\ UNCHANGED bvars
  /\ UNCHANGED cvars
  /\ UNCHANGED asked

\* lines 324-328, evaluated when the map loop has run out of batches.
\* (variant: without the `if not batch_summaries` check)
AfterMapLoop_noCheck(summaries) == "Reducing"
AfterMapLoop(summaries) == IF summaries = <<>> THEN "Failed" ELSE "Reducing"

PathsOf(batch) == [k \in 1..Len(batch) |-> batch[k].path]

\* (variant: the first answered call ends the loop: the reduce stage starts
\* without the batches that remain)
MapBatch_reduceEarly(r) ==
  /\ pc[r] = "Mapping"
  /\ idx[r] <= Len(batches[r])
  /\ \E out \in { <<OracleSummary(idx[r])>>, <<>> } :
       LET summaries == IF out # <<>> THEN Append(batch_summaries[r], out[1])
                        ELSE batch_summaries[r]
           failed == IF out # <<>> THEN failed_batches[r] ELSE failed_batches[r] + 1
           next == IF out # <<>> THEN "Reducing"
                   ELSE IF idx[r] < Len(batches[r]) THEN "Mapping" ELSE "Failed"
       IN  /\ batch_summaries' = [batch_summaries EXCEPT ![r] = summaries]
           /\ failed_batches' = [failed_batches EXCEPT ![r] = failed]
           /\ calls' = [calls EXCEPT ![r] =
                          Append(@, [kind |-> "map", batch |-> idx[r],
                                     files |-> PathsOf(batches[r][idx[r]]), out |-> out])]
           /\ idx' = [idx EXCEPT ![r] = @ + 1]
           /\ pc' = [pc EXCEPT ![r] = next]
           /\ response' = [response EXCEPT ![r] =
                             IF next = "Failed" THEN ErrorResponse(AllBatchesFailed) ELSE @]
  /\ UNCHANGED <<env, db, nextId, tx, request, filtered_contents, skipped_files, batches,
                 result, existing, persist, writerOf>>
  /\ UNCHANGED bvars
  /\ UNCHANGED cvars
  /\ UNCHANGED asked

\* (variant: a faulted map call is sent again instead of being counted)
MapBatch_retryOnFault(r) ==
  /\ pc[r] = "Mapping"
  /\ idx[r] <= Len(batches[r])
  /\ \E out \in { <<OracleSummary(idx[r])>>, <<>> } :
       LET summaries == IF out # <<>> THEN Append(batch_summaries[r], out[1])
                        ELSE batch_summaries[r]
           next == IF out = <<>> \/ idx[r] < Len(batches[r]) THEN "Mapping"
                   ELSE AfterMapLoop(summaries)
       IN  /\ batch_summaries' = [batch_summaries EXCEPT ![r] = summaries]
           /\ UNCHANGED failed_batches
           /\ calls' = [calls EXCEPT ![r] =
                          Append(@, [kind |-> "map", batch |-> idx[r],
                                     files |-> PathsOf(batches[r][idx[r]]), out |-> out])]
           /\ idx' = [idx EXCEPT ![r] = IF out = <<>> THEN @ ELSE @ + 1]
           /\ pc' = [pc EXCEPT ![r] = next]
           /\ UNCHANGED response
  /\ UNCHANGED <<env, db, nextId, tx, request, filtered_contents, skipped_files, batches,
                 result, existing, persist, writerOf>>
  /\ UNCHANGED bvars
  /\ UNCHANGED cvars
  /\ UNCHANGED asked

\* (variant: a faulted call ends the loop and fails the request)
MapBatch_abortOnFault(r) ==
  /\ pc[r] = "Mapping"
  /\ idx[r] <= Len(batches[r])
  /\ \E out \in { <<OracleSummary(idx[r])>>, <<>> } :
       LET summaries == IF out # <<>> THEN Append(batch_summaries[r], out[1])
                        ELSE batch_summaries[r]
           failed == IF out # <<>> THEN failed_batches[r] ELSE failed_batches[r] + 1
           next == IF out = <<>> THEN "Failed"
                   ELSE IF idx[r] < Len(batches[r]) THEN "Mapping" ELSE "Reducing"
       IN  /\ batch_summaries' = [batch_summaries EXCEPT ![r] = summaries]
           /\ failed_batches' = [failed_batches EXCEPT ![r] = failed]
           /\ calls' = [calls EXCEPT ![r] =
                          Append(@, [kind |-> "map", batch |-> idx[r],
                                     files |-> PathsOf(batches[r][idx[r]]), out |-> out])]
           /\ idx' = [idx EXCEPT ![r] = @ + 1]
           /\ pc' = [pc EXCEPT ![r] = next]
           /\ response' = [response EXCEPT ![r] =
                             IF next = "Failed" THEN ErrorResponse(AllBatchesFailed) ELSE @]
  /\ UNCHANGED <<env, db, nextId, tx, request, filtered_contents, skipped_files, batches,
                 result, existing, persist, writerOf>>
  /\ UNCHANGED bvars
  /\ UNCHANGED cvars
  /\ UNCHANGED asked

\* lines 288-328: one iteration of the map loop (one oracle call), and after
\* the last one the check that some batch succeeded.  The payload is the
\* batch rendered by format_code_for_ai, cut to 24000 characters when it
\* estimates above 6000 tokens; the call is recorded with the paths it renders.
MapBatch(r) ==
  /\ pc[r] = "Mapping"
  /\ idx[r] <= Len(batches[r])
  /\ \E out \in { <<OracleSummary(idx[r])>>, <<>> } :
       LET summaries == IF out # <<>> THEN Append(batch_summaries[r], out[1])
                        ELSE batch_summaries[r]
           failed == IF out # <<>> THEN failed_batches[r] ELSE failed_batches[r] + 1
           next == IF idx[r] < Len(batches[r]) THEN "Mapping" ELSE AfterMapLoop(summaries)
       IN  /\ batch_summaries' = [batch_summaries EXCEPT ![r] = summaries]
           /\ failed_batches' = [failed_batches EXCEPT ![r] = failed]
           /\ calls' = [calls EXCEPT ![r] =
                          Append(@, [kind |-> "map", batch |-> idx[r],
                                     files |-> PathsOf(batches[r][idx[r]]), out |-> out])]
           /\ idx' = [idx EXCEPT ![r] = @ + 1]
           /\ pc' = [pc EXCEPT ![r] = next]
           /\ response' = [response EXCEPT ![r] =
                             IF next = "Failed" THEN ErrorResponse(AllBatchesFailed) ELSE @]
  /\ UNCHANGED <<env, db, nextId, tx, request, filtered_contents, skipped_files, batches,
                 result, existing, persist, writerOf>>
  /\ UNCHANGED bvars
  /\ UNCHANGED cvars
  /\ UNCHANGED asked

\* (variant: without the fallback of lines 360-363, a faulted synthesis call
\* reaches the handler's `except Exception`)
Reduce_noFallback(r) ==
  /\ pc[r] = "Reducing"
  /\ LET all_summaries == JoinBlank(batch_summaries[r])
     IN  \E out \in { <<t>> : t \in OracleTexts } \cup { <<>> } :
           /\ calls' = [calls EXCEPT ![r] =
                          Append(@, [kind |-> "synthesis", input |-> all_summaries,
                                     out |-> out])]
           /\ IF out # <<>>
                THEN /\ result' = [result EXCEPT ![r] =
                                     FreshResult(request[r], out[1],
                                                 Len(filtered_contents[r]),
                                                 Len(skipped_files[r]),
                                                 Len(batches[r]), failed_batches[r])]
                     /\ pc' = [pc EXCEPT ![r] = "Persisting"]
                     /\ UNCHANGED response
                ELSE /\ pc' = [pc EXCEPT ![r] = "Failed"]
                     /\ response' = [response EXCEPT ![r] =
                                       ErrorResponse([status_code |-> 500,
                                                      detail |-> "synthesis"])]
                     /\ UNCHANGED result
  /\ UNCHANGED <<env, db, nextId, tx, request, filtered_contents, skipped_files, batches,
                 idx, batch_summaries, failed_batches, existing, persist, writerOf>>
  /\ UNCHANGED bvars
  /\ UNCHANGED cvars
  /\ UNCHANGED asked

\* lines 330-379: the synthesis call, its fallback, and the result dict.
Reduce(r) ==
  /\ pc[r] = "Reducing"
  /\ LET all_summaries == JoinBlank(batch_summaries[r])
     IN  \E out \in { <<t>> : t \in OracleTexts } \cup { <<>> } :
           LET analysis_text == IF out # <<>> THEN out[1] ELSE FallbackReport(all_summaries)
           IN  /\ calls' = [calls EXCEPT ![r] =
                              Append(@, [kind |-> "synthesis", input |-> all_summaries,
                                         out |-> out])]
               /\ result' = [result EXCEPT ![r] =
                               FreshResult(request[r], analysis_text,
                                           Len(filtered_contents[r]), Len(skipped_files[r]),
                                           Len(batches[r]), failed_batches[r])]
  /\ pc' = [pc EXCEPT ![r] = "Persisting"]
  /\ UNCHANGED <<env, db, nextId, tx, request, filtered_contents, skipped_files, batches,
                 idx, batch_summaries, failed_batches, existing, response, persist,
                 writerOf>>
  /\ UNCHANGED bvars
  /\ UNCHANGED cvars
  /\ UNCHANGED asked

\* (variant: the exception of the write reaches the handler's `except Exception`)
PersistFailed_raises(r, how) ==
  /\ tx' = [tx EXCEPT ![r] = NoTx]
  /\ existing' = [existing EXCEPT ![r] = <<>>]
  /\ persist' = [persist EXCEPT ![r] = how]
  /\ response' = [response EXCEPT ![r] =
                    ErrorResponse([status_code |-> 500, detail |-> how])]
  /\ pc' = [pc EXCEPT ![r] = "Failed"]

\* lines 411-418 and 426-427: the write failed: db.rollback(), the result is
\* returned, and db.close() lets go of what the session loaded.
PersistFailed(r, how) ==
  /\ tx' = [tx EXCEPT ![r] = NoTx]
  /\ existing' = [existing EXCEPT ![r] = <<>>]
  /\ persist' = [persist EXCEPT ![r] = how]
  /\ response' = [response EXCEPT ![r] = OkResponse(result[r])]
  /\ pc' = [pc EXCEPT ![r] = "Done"]

\* (variant: without the lookup, every run adds a new row)
PersistRead_alwaysNew(r) ==
  /\ pc[r] = "Persisting"
  /\ \/ /\ existing' = [existing EXCEPT ![r] = <<>>]
        /\ pc' = [pc EXCEPT ![r] = "Flushing"]
        /\ UNCHANGED <<tx, persist, response>>
     \/ PersistFailed(r, "fault")
  /\ UNCHANGED <<env, db, nextId, request, filtered_contents, skipped_files, batches, idx,
                 batch_summaries, failed_batches, result, calls, writerOf>>
  /\ UNCHANGED bvars
  /\ UNCHANGED cvars
  /\ UNCHANGED asked

\* lines 381-408: the lookup for the upsert; the row is then changed, or a new
\* one added, in the session only (autoflush=False).
PersistRead(r) ==
  /\ pc[r] = "Persisting"
  /\ \/ /\ \E row \in RowsOfKey(db, request[r].key) :
             existing' = [existing EXCEPT ![r] = <<row>>]
        /\ pc' = [pc EXCEPT ![r] = "Flushing"]
        /\ UNCHANGED <<tx, persist, response>>
     \/ /\ RowsOfKey(db, request[r].key) = {}
        /\ existing' = [existing EXCEPT ![r] = <<>>]
        /\ pc' = [pc EXCEPT ![r] = "Flushing"]
        /\ UNCHANGED <<tx, persist, response>>
     \/ PersistFailed(r, "fault")
  /\ UNCHANGED <<env, db, nextId, request, filtered_contents, skipped_files, batches, idx,
                 batch_summaries, failed_batches, result, calls, writerOf>>
  /\ UNCHANGED bvars
  /\ UNCHANGED cvars
  /\ UNCHANGED asked

\* A flushed, uncommitted write of another session on the same key: the
\* INSERT (unique index) or UPDATE (row lock) waits for that transaction.
Blocked(r) ==
  \E s \in Reqs \ {r} : tx[s].op # "none" /\ tx[s].key = request[r].key

\* line 410, first half: db.commit() flushes the INSERT or the UPDATE.
PersistFlush(r) ==
  /\ pc[r] = "Flushing"
  /\ \/ /\ existing[r] = <<>>
        /\ ~Blocked(r)
        /\ IF UniqueViolation(db, request[r].key)
             THEN /\ PersistFailed(r, "IntegrityError")
                  /\ nextId' = nextId + 1
             ELSE /\ tx' = [tx EXCEPT ![r] =
                              [op |-> "insert", key |-> request[r].key,
                               row |-> NewRow(nextId, request[r].key, result[r])]]
                  /\ nextId' = nextId + 1
                  /\ pc' = [pc EXCEPT ![r] = "Committing"]
                  /\ UNCHANGED <<persist, response, existing>>
     \/ /\ existing[r] # <<>>
        /\ ~Blocked(r)
        /\ tx' = [tx EXCEPT ![r] =
                    [op |-> "update", key |-> request[r].key, id |-> existing[r][1].id,
                     cols |-> ChangedCols(existing[r][1], RowValues(result[r])),
                     vals |-> RowValues(result[r])]]
        /\ pc' = [pc EXCEPT ![r] = "Committing"]
        /\ UNCHANGED <<nextId, persist, response, existing>>
     \/ /\ PersistFailed(r, "fault")
        /\ UNCHANGED nextId
  /\ UNCHANGED <<env, db, request, filtered_contents, skipped_files, batches, idx,
                 batch_summaries, failed_batches, result, calls, writerOf>>
  /\ UNCHANGED bvars
  /\ UNCHANGED cvars
  /\ UNCHANGED asked

CommittedRows(rows, t) ==
  IF t.op = "insert" THEN rows \cup {t.row}
  ELSE { IF row.id = t.id THEN ApplyUpdate(row, t) ELSE row : row \in rows }

\* (variant: the COMMIT that raised has been applied all the same)
PersistCommit_faultKeepsWrite(r) ==
  /\ pc[r] = "Committing"
  /\ \/ /\ db' = CommittedRows(db, tx[r])
        /\ tx' = [tx EXCEPT ![r] = NoTx]
        /\ persist' = [persist EXCEPT ![r] = IF tx[r].op = "insert" THEN "inserted" ELSE "updated"]
        /\ writerOf' = [writerOf EXCEPT ![request[r].key] = r]
        /\ existing' = [existing EXCEPT ![r] = <<>>]
        /\ response' = [response EXCEPT ![r] = OkResponse(result[r])]
        /\ pc' = [pc EXCEPT ![r] = "Done"]
     \/ /\ PersistFailed(r, "fault")
        /\ db' = CommittedRows(db, tx[r])
        /\ UNCHANGED writerOf
  /\ UNCHANGED <<env, nextId, request, filtered_contents, skipped_files, batches, idx,
                 batch_summaries, failed_batches, result, calls>>
  /\ UNCHANGED bvars
  /\ UNCHANGED cvars
  /\ UNCHANGED asked

\* line 410, second half: COMMIT; then `return result`.
PersistCommit(r) ==
  /\ pc[r] = "Committing"
  /\ \/ /\ db' = CommittedRows(db, tx[r])
        /\ tx' = [tx EXCEPT ![r] = NoTx]
        /\ persist' = [persist EXCEPT ![r] = IF tx[r].op = "insert" THEN "inserted" ELSE "updated"]
        /\ writerOf' = [writerOf EXCEPT ![request[r].key] = r]
        /\ existing' = [existing EXCEPT ![r] = <<>>]
        /\ response' = [response EXCEPT ![r] = OkResponse(result[r])]
        /\ pc' = [pc EXCEPT ![r] = "Done"]
     \/ /\ PersistFailed(r, "fault")
        /\ UNCHANGED <<db, writerOf>>
  /\ UNCHANGED <<env, nextId, request, filtered_contents, skipped_files, batches, idx,
                 batch_summaries, failed_batches, result, calls>>
  /\ UNCHANGED bvars
  /\ UNCHANGED cvars
  /\ UNCHANGED asked

Next ==
  \E r \in Reqs :
    \/ Start(r)
    \/ CacheCheck(r)
    \/ FilterFiles(r)
    \/ Partition(r)
    \/ MapBatch(r)
    \/ Reduce(r)
    \/ PersistRead(r)
    \/ PersistFlush(r)
    \/ PersistCommit(r)

Spec == Init /\ [][Next]_vars

\* The same handler under clients that send one request at a time: a request
\* takes a step only while no other request is under way.
NoOtherUnderWay(r) == \A s \in Reqs \ {r} : pc[s] \in {"Idle", "Done", "Failed"}

NextSeq ==
  \E r \in Reqs :
    /\ NoOtherUnderWay(r)
    /\ \/ Start(r)
       \/ CacheCheck(r)
       \/ FilterFiles(r)
       \/ Partition(r)
       \/ MapBatch(r)
       \/ Reduce(r)
       \/ PersistRead(r)
       \/ PersistFlush(r)
       \/ PersistCommit(r)

SpecSeq == Init /\ [][NextSeq]_vars

\* The handler serving a single request: what it does with its own locals,
\* its own oracle calls and its own session, over a table that starts empty
\* or with the row of an earlier run.
FirstRequest == 1

NextSolo ==
  \/ Start(FirstRequest)
  \/ CacheCheck(FirstRequest)
  \/ FilterFiles(FirstRequest)
  \/ Partition(FirstRequest)
  \/ MapBatch(FirstRequest)
  \/ Reduce(FirstRequest)
  \/ PersistRead(FirstRequest)
  \/ PersistFlush(FirstRequest)
  \/ PersistCommit(FirstRequest)

SpecSolo == Init /\ [][NextSolo]_vars

\* --------------------------------------------- the backend in front of it
\* src/backend/app.py: POST /repos/{owner}/{repo}/analyze fetches the files of
\* the repository from GitHub and posts them to /analyze.

\* The refs a caller may ask for: none (the query default ""), a branch, or
\* a branch the repository does not have.
AskedRefs == {"", "main", "dev", "gone"}

\* The branches a repository may have.
Branches == {"main", "dev"}

\* What GitHub answers: the status of GET /repos/{owner}/{repo}, its JSON
\* (with or without a default_branch), the branches whose archive can be
\* downloaded, and the decodable files under the archive's prefix.
RepoInfos == { [name |-> "r"] } \cup { [name |-> "r", default_branch |-> b] : b \in Branches }
GitHubAnswers ==
  [repo_status : {200, 404}, repo_info : RepoInfos, archives : SUBSET Branches,
   files : PipelineFileSets]

\* repo_info.get("default_branch", "main"), line 202.
DefaultBranchOf(repo_info) ==
  IF "default_branch" \in DOMAIN repo_info THEN repo_info.default_branch ELSE "main"

Raised(status) == [status |-> status, contents |-> <<>>, ref |-> ""]

\* (variant: the archive of the default branch is taken when no ref is given,
\* as GitHub's zipball endpoint does, and the ref is returned as it was given)
get_repo_contents_zipball(ref, gh) ==
  LET branch == IF ref = "" THEN DefaultBranchOf(gh.repo_info) ELSE ref
  IN  IF branch \notin gh.archives THEN Raised(404)
      ELSE IF gh.files = <<>> THEN Raised(404)
      ELSE [status |-> 200, contents |-> gh.files, ref |-> ref]

\* lines 182-249: an empty ref is replaced by the repository's default branch
\* (a failed lookup raises); the archive of the ref is downloaded (non-200
\* raises); an archive without files is a 404; the files and the ref used
\* are returned.
get_repo_contents(ref, gh) ==
  IF ref = "" /\ gh.repo_status # 200 THEN Raised(gh.repo_status)
  ELSE LET actual == IF ref = "" THEN DefaultBranchOf(gh.repo_info) ELSE ref
       IN  IF actual \notin gh.archives THEN Raised(404)
           ELSE IF gh.files = <<>> THEN Raised(404)
           ELSE [status |-> 200, contents |-> gh.files, ref |-> actual]

\* lines 252-298: analyze_repo.  When get_repo_contents raises, the caller
\* gets its error and nothing is posted; otherwise the request is posted to
\* /analyze with the ref get_repo_contents returned (lines 267-273).
AnalyzeRepo(r) ==
  /\ pc[r] = "Idle"
  /\ \E ref \in AskedRefs, gh \in GitHubAnswers, force_reanalysis \in BOOLEAN :
       LET got == get_repo_contents(ref, gh)
       IN  /\ asked' = [asked EXCEPT ![r] =
                          [ref |-> ref,
                           default_branch |-> IF ref = "" /\ gh.repo_status = 200
                                                THEN <<DefaultBranchOf(gh.repo_info)>>
                                                ELSE <<>>,
                           through |-> "backend"]]
           /\ IF got.status # 200
                THEN /\ pc' = [pc EXCEPT ![r] = "Refused"]
                     /\ response' = [response EXCEPT ![r] =
                                       ErrorResponse([status_code |-> got.status,
                                                      detail |-> "github"])]
                     /\ UNCHANGED request
                ELSE /\ pc' = [pc EXCEPT ![r] = "CacheCheck"]
                     /\ request' = [request EXCEPT ![r] =
                                      [key |-> [owner |-> "o", repo |-> "r",
                                                ref |-> got.ref],
                                       force_reanalysis |-> force_reanalysis,
                                       contents |-> got.contents]]
                     /\ UNCHANGED response
  /\ UNCHANGED <<env, db, nextId, tx, filtered_contents, skipped_files, batches, idx,
                 batch_summaries, failed_batches, result, existing, calls, persist,
                 writerOf>>
  /\ UNCHANGED bvars
  /\ UNCHANGED cvars

NextBackend ==
  \/ AnalyzeRepo(FirstRequest)
  \/ CacheCheck(FirstRequest)
  \/ FilterFiles(FirstRequest)
  \/ Partition(FirstRequest)
  \/ MapBatch(FirstRequest)
  \/ Reduce(FirstRequest)
  \/ PersistRead(FirstRequest)
  \/ PersistFlush(FirstRequest)
  \/ PersistCommit(FirstRequest)

SpecBackend == Init /\ [][NextBackend]_vars

\* ------------------------------------- the pipeline under default settings
\* MAX_FILE_SIZE_KB unset (5 KB, line 254) and create_batches called with its
\* default budget (line 282).  Contents at and around the ceiling: exactly
\* 5120 bytes, one byte more, 1707 three-byte characters (5121 bytes), and a
\* file of 24004 characters, whose 6001 tokens alone exceed the budget.
DefaultContents ==
  { [chars |-> 5120, bytes |-> 5120], [chars |-> 5121, bytes |-> 5121],
    [chars |-> 1707, bytes |-> 5121], [chars |-> 24004, bytes |-> 24004] }

AtCeiling == [chars |-> DefaultMaxFileSizeKb * 1024, bytes |-> DefaultMaxFileSizeKb * 1024]

\* The FileSets: up to MaxDefaultFiles files, the first two of any of these
\* contents, the others exactly at the ceiling.
DefaultFileSets ==
  UNION { { [i \in 1..n |-> MkFile(i, (IF i <= 2 THEN f[i] ELSE AtCeiling).chars,
                                      (IF i <= 2 THEN f[i] ELSE AtCeiling).bytes)]
            : f \in [1..2 -> DefaultContents] }
          : n \in 0..MaxDefaultFiles }

DefaultRequests ==
  [key : {[owner |-> "o", repo |-> "r", ref |-> "main"]}, force_reanalysis : BOOLEAN,
   contents : DefaultFileSets]

\* The service started with MAX_FILE_SIZE_KB unset, the oracle credentials
\* set and an empty table.
InitDefaults ==
  /\ bIn = <<>>
  /\ bMax = DefaultMaxTokensPerBatch
  /\ bOut = <<>>
  /\ bPc = "ready"
  /\ env = [api_key |-> TRUE, max_file_size_kb |-> DefaultMaxFileSizeKb]
  /\ db = {}
  /\ nextId = 1
  /\ PipelineIdle
  /\ CacheIdle

\* POST /analyze arrives (lines 216-222) with one of these FileSets.
StartDefaults(r) ==
  /\ pc[r] = "Idle"
  /\ \E rq \in DefaultRequests : request' = [request EXCEPT ![r] = rq]
  /\ pc' = [pc EXCEPT ![r] = "CacheCheck"]
  /\ filtered_contents' = [filtered_contents EXCEPT ![r] = <<>>]
  /\ skipped_files' = [skipped_files EXCEPT ![r] = <<>>]
  /\ batches' = [batches EXCEPT ![r] = <<>>]
  /\ idx' = [idx EXCEPT ![r] = 1]
  /\ batch_summaries' = [batch_summaries EXCEPT ![r] = <<>>]
  /\ failed_batches' = [failed_batches EXCEPT ![r] = 0]
  /\ result' = [result EXCEPT ![r] = NoResult]
  /\ existing' = [existing EXCEPT ![r] = <<>>]
  /\ response' = [response EXCEPT ![r] = NoResponse]
  /\ calls' = [calls EXCEPT ![r] = <<>>]
  /\ persist' = [persist EXCEPT ![r] = "none"]
  /\ UNCHANGED <<env, db, nextId, tx, writerOf>>
  /\ UNCHANGED bvars
  /\ UNCHANGED cvars
  /\ UNCHANGED asked

NextDefaults ==
  \/ StartDefaults(FirstRequest)
  \/ CacheCheck(FirstRequest)
  \/ FilterFiles(FirstRequest)
  \/ Partition(FirstRequest)
  \/ MapBatch(FirstRequest)
  \/ Reduce(FirstRequest)
  \/ PersistRead(FirstRequest)
  \/ PersistFlush(FirstRequest)
  \/ PersistCommit(FirstRequest)

SpecDefaults == InitDefaults /\ [][NextDefaults]_vars

\* ================================================================== claims
\* ------------------------------------------------- helpers of the formulas
RECURSIVE Flatten(_)
Flatten(seqs) == IF seqs = <<>> THEN <<>> ELSE seqs[1] \o Flatten(Tail(seqs))

RECURSIVE SumTokens(_)
SumTokens(batch) ==
  IF batch = <<>> THEN 0
  ELSE estimate_tokens(batch[1].chars) + FileOverhead + SumTokens(Tail(batch))

PathsIn(batch) == { batch[k].path : k \in 1..Len(batch) }

\* C1: when create_batches has returned, the batches partition the input: the
\* batches read in output order, each in its own order, give back the input
\* FileSet in its insertion order, so that every input path is in exactly one
\* batch and no other path is in any.
C1_BatchesPartitionInput ==
  bPc = "done" =>
    /\ Flatten(bOut) = bIn
    /\ \A i \in 1..Len(bIn) :
         Cardinality({ j \in 1..Len(bOut) : bIn[i].path \in PathsIn(bOut[j]) }) = 1
    /\ \A j \in 1..Len(bOut) : PathsIn(bOut[j]) \subseteq PathsIn(bIn)

\* C1 witness: three files came back in more than one batch, one of them
\* holding two files.
C1_Witness ==
  /\ bPc = "done"
  /\ Len(bIn) = 3
  /\ Len(bOut) = 2
  /\ \E j \in 1..Len(bOut) : Len(bOut[j]) = 2

\* C2 as claimed: every batch's estimated size (the sum over its files of
\* tokens + 100) is within the budget, unless the batch is a singleton whose
\* file has more tokens than the budget.
C2_BatchWithinBudgetUnlessOversized ==
  bPc = "done" =>
    \A j \in 1..Len(bOut) :
      \/ SumTokens(bOut[j]) <= bMax
      \/ /\ Len(bOut[j]) = 1
         /\ estimate_tokens(bOut[j][1].chars) > bMax

\* C3: every file whose tokens exceed the budget is a batch of its own; the
\* batches before it hold exactly the files before it, the batches after it
\* exactly the files after it; and the scenario of the specification
\* ({a.py: 40000 chars, b.go: 100 chars}, budget 6000) gives [{a.py}, {b.go}].
C3_OversizedFileIsSingleton ==
  bPc = "done" =>
    /\ \A k \in 1..Len(bIn) :
         estimate_tokens(bIn[k].chars) > bMax =>
           \E j \in 1..Len(bOut) :
             /\ bOut[j] = <<bIn[k]>>
             /\ Flatten(SubSeq(bOut, 1, j - 1)) = SubSeq(bIn, 1, k - 1)
             /\ Flatten(SubSeq(bOut, j + 1, Len(bOut))) = SubSeq(bIn, k + 1, Len(bIn))
    /\ (bMax = 6000 /\ bIn = <<MkFile(1, 40000, 40000), MkFile(2, 100, 100)>>) =>
         bOut = << <<MkFile(1, 40000, 40000)>>, <<MkFile(2, 100, 100)>> >>

\* C3 witness: an oversized file between two files that fit came back as the
\* middle one of three batches.
C3_Witness ==
  /\ bPc = "done"
  /\ Len(bIn) = 3
  /\ estimate_tokens(bIn[1].chars) <= bMax
  /\ estimate_tokens(bIn[2].chars) > bMax
  /\ estimate_tokens(bIn[3].chars) <= bMax
  /\ Len(bOut) = 3
  /\ bOut[2] = <<bIn[2]>>

\* C4: the empty FileSet gives no batch, whatever the budget, and no batch
\* returned for any input is empty.
C4_NoEmptyBatch ==
  bPc = "done" =>
    /\ (bIn = <<>> => bOut = <<>>)
    /\ \A j \in 1..Len(bOut) : bOut[j] # <<>>

\* C4 witness: create_batches returned for the empty FileSet under a budget
\* other than the default.
C4_Witness ==
  /\ bPc = "done"
  /\ bIn = <<>>
  /\ bMax # DefaultMaxTokensPerBatch
  /\ bOut = <<>>

\* ------------------------------------- helpers of the pipeline's formulas
IsMapCall(c) == c.kind = "map"
IsSynthesisCall(c) == c.kind = "synthesis"
MapCalls(r) == SelectSeq(calls[r], IsMapCall)
SynthesisCalls(r) == SelectSeq(calls[r], IsSynthesisCall)

\* The answers of the calls that did not fault, in the order of the calls.
RECURSIVE Answers(_)
Answers(cs) ==
  IF cs = <<>> THEN <<>>
  ELSE (IF cs[1].out # <<>> THEN <<cs[1].out[1]>> ELSE <<>>) \o Answers(Tail(cs))

NumFaulted(cs) == Cardinality({ k \in 1..Len(cs) : cs[k].out = <<>> })

\* The map loop has run over every batch.
MapStageOver(r) ==
  /\ batches[r] # <<>>
  /\ Len(MapCalls(r)) = Len(batches[r])

\* The request has built its result dict (it is persisting, or has returned it).
HasFreshResult(r) ==
  \/ pc[r] \in {"Persisting", "Flushing", "Committing"}
  \/ pc[r] = "Done" /\ response[r].status = "ok" /\ ~response[r].body.cached

FreshDone(r) ==
  pc[r] = "Done" /\ response[r].status = "ok" /\ ~response[r].body.cached

CacheHitDone(r) ==
  pc[r] = "Done" /\ response[r].status = "ok" /\ response[r].body.cached

\* Texts one after the other with a blank line between them.
RECURSIVE BlankSeparated(_)
BlankSeparated(texts) ==
  IF Len(texts) = 0 THEN <<>>
  ELSE IF Len(texts) = 1 THEN texts[1]
  ELSE BlankSeparated(SubSeq(texts, 1, Len(texts) - 1)) \o <<NL, NL>> \o texts[Len(texts)]

Field(rec, f) == IF f \in DOMAIN rec THEN <<rec[f]>> ELSE <<>>

\* The AnalysisResult a response body carries; a field the body lacks is <<>>.
AnalysisResultOf(body) ==
  [summary |-> Field(body, "summary"),
   fullReport |-> Field(body, "analysis"),
   filesAnalyzed |-> Field(body.repository, "files_analyzed"),
   filesSkipped |-> Field(body.repository, "files_skipped"),
   batchesProcessed |-> Field(body.repository, "batches_processed"),
   batchesFailed |-> Field(body.repository, "batches_failed")]

\* C5 as claimed: a non-forced request that finds the row which a finished
\* request for the same key committed last returns the AnalysisResult that
\* request returned (summary, report, filesAnalyzed, filesSkipped,
\* batchesProcessed, batchesFailed) and makes no oracle call.
C5_SecondRunReturnsFirstResult ==
  [][ \A r1 \in Reqs, r2 \in Reqs :
        ( /\ r1 # r2
          /\ FreshDone(r1)
          /\ persist[r1] \in {"inserted", "updated"}
          /\ request[r2].key = request[r1].key
          /\ writerOf[request[r1].key] = r1
          /\ pc[r2] = "CacheCheck"
          /\ ~request[r2].force_reanalysis
          /\ pc'[r2] = "Done" )
        => /\ AnalysisResultOf(response'[r2].body) = AnalysisResultOf(response[r1].body)
           /\ calls'[r2] = <<>> ]_vars

\* C6: two force_reanalysis=true requests for the same key that both reached
\* the persist step and whose store calls met no fault other than the
\* uniqueness constraint: a flush that waits, waits for a session that is
\* about to commit; and once both have ended, both ended Done with their
\* result as the response, and the table holds exactly one row of the key.
C6_ConcurrentForcedLeaveOneRow ==
  \A r1 \in Reqs, r2 \in Reqs :
    ( /\ r1 # r2
      /\ request[r1].force_reanalysis /\ request[r2].force_reanalysis
      /\ request[r1].key = request[r2].key
      /\ HasFreshResult(r1) /\ HasFreshResult(r2)
      /\ persist[r1] # "fault" /\ persist[r2] # "fault" )
    => /\ (pc[r1] = "Flushing" /\ Blocked(r1)) => pc[r2] = "Committing"
       /\ (pc[r1] = "Done" /\ pc[r2] = "Done") =>
            /\ response[r1] = OkResponse(result[r1])
            /\ response[r2] = OkResponse(result[r2])
            /\ Cardinality(RowsOfKey(db, request[r1].key)) = 1

\* C6 witness: both requests read that the key had no row, both inserted; one
\* committed and the other was refused by the uniqueness constraint.
C6_Witness ==
  \E r1 \in Reqs, r2 \in Reqs :
    /\ r1 # r2
    /\ request[r1].force_reanalysis /\ request[r2].force_reanalysis
    /\ request[r1].key = request[r2].key
    /\ FreshDone(r1) /\ FreshDone(r2)
    /\ persist[r1] = "inserted" /\ persist[r2] = "IntegrityError"
    /\ Cardinality(RowsOfKey(db, request[r1].key)) = 1

\* C7 as claimed: when two force_reanalysis=true requests for the same key have
\* both gone through the persist step (no store fault injected), neither write
\* met a uniqueness violation, and the row of the key holds the values of the
\* request that committed last.
C7_LastWriterWinsNoDuplicateKey ==
  \A r1 \in Reqs, r2 \in Reqs :
    ( /\ r1 # r2
      /\ request[r1].force_reanalysis /\ request[r2].force_reanalysis
      /\ request[r1].key = request[r2].key
      /\ FreshDone(r1) /\ FreshDone(r2)
      /\ persist[r1] # "fault" /\ persist[r2] # "fault" )
    => /\ persist[r1] # "IntegrityError" /\ persist[r2] # "IntegrityError"
       /\ \A row \in RowsOfKey(db, request[r1].key) :
            \A w \in {r1, r2} :
              writerOf[request[r1].key] = w =>
                [c \in DataCols |-> row[c]] = RowValues(result[w])

\* The synthesis call of the request was made and faulted.
SynthesisFaulted(r) ==
  /\ Len(SynthesisCalls(r)) = 1
  /\ SynthesisCalls(r)[1].out = <<>>

IsPrefix(p, t) == Len(p) <= Len(t) /\ SubSeq(t, 1, Len(p)) = p
IsSuffix(p, t) == Len(p) <= Len(t) /\ SubSeq(t, Len(t) - Len(p) + 1, Len(t)) = p

C9_PartialMapFailureStillReduces ==
  \A r \in Reqs :
    (MapStageOver(r) /\ NumFaulted(MapCalls(r)) < Len(batches[r])) =>
      /\ pc[r] # "Failed"
      /\ Len(Answers(MapCalls(r))) = Len(batches[r]) - NumFaulted(MapCalls(r))
      /\ HasFreshResult(r) =>
           /\ Len(SynthesisCalls(r)) = 1
           /\ SynthesisCalls(r)[1].input = BlankSeparated(Answers(MapCalls(r)))
           /\ result[r].repository.batches_processed = Len(batches[r])
           /\ result[r].repository.batches_failed = NumFaulted(MapCalls(r))
      /\ FreshDone(r) =>
           /\ response[r].body.repository.batches_processed = Len(batches[r])
           /\ response[r].body.repository.batches_failed = NumFaulted(MapCalls(r))

\* C9 witness: of two batches the first faulted and the second succeeded, and
\* the request returned its result.
C9_Witness ==
  \E r \in Reqs :
    /\ FreshDone(r)
    /\ Len(batches[r]) = 2
    /\ MapCalls(r)[1].out = <<>>
    /\ MapCalls(r)[2].out # <<>>
    /\ response[r].body.repository.batches_failed = 1

\* C10: once the map loop has run over every batch and every call faulted,
\* the request is Failed with the error "All batches failed to process", it
\* made no synthesis call, and its session wrote nothing: no insert, no
\* update, no commit of its own.
C10_TotalMapFailureFails ==
  \A r \in Reqs :
    (MapStageOver(r) /\ NumFaulted(MapCalls(r)) = Len(batches[r])) =>
      /\ pc[r] = "Failed"
      /\ response[r] = ErrorResponse(AllBatchesFailed)
      /\ SynthesisCalls(r) = <<>>
      /\ persist[r] = "none"
      /\ tx[r] = NoTx
      /\ \A k \in Keys : writerOf[k] # r

\* C10 witness: both of two batches faulted and the request is Failed, while
\* the table still holds what it held.
C10_Witness ==
  \E r \in Reqs :
    /\ pc[r] = "Failed"
    /\ Len(batches[r]) = 2
    /\ NumFaulted(MapCalls(r)) = 2
    /\ db \in StoredBefore

\* ------------------------------------------------------------- C11 .. C20
AggregateCounts == {"files_analyzed", "files_skipped", "batches_processed", "batches_failed"}

\* C11 as claimed: every successful response, on the cache-hit path as well as
\* on the fresh path, carries all four aggregate counts: files analyzed,
\* files skipped, batches processed and batches failed.
C11_EveryResponseCarriesFourCounts ==
  \A r \in Reqs :
    (pc[r] = "Done" /\ response[r].status = "ok") =>
      AggregateCounts \subseteq DOMAIN response[r].body.repository

\* C12: a force_reanalysis=false request whose lookup returns the row stored
\* for its key (every step out of CacheCheck with a row of the key stored,
\* other than the miss a faulted lookup is taken for, C15) goes from CacheCheck
\* straight to Done: nothing was filtered or partitioned, no oracle call was
\* made, the table, the sequence, the sessions and the write history are what
\* they were, and the response is marked cached=true and carries the summary,
\* the report and the counters of a stored row of the key.
C12_CacheHitShortCircuits ==
  [][ \A r \in Reqs :
        ( /\ pc[r] = "CacheCheck"
          /\ ~request[r].force_reanalysis
          /\ RowsOfKey(db, request[r].key) # {}
          /\ pc'[r] \notin {"CacheCheck", "Filtering"} )
        => /\ pc'[r] = "Done"
           /\ response'[r].status = "ok"
           /\ response'[r].body.cached = TRUE
           /\ \E row \in RowsOfKey(db, request[r].key) :
                /\ response'[r].body.summary = row.summary
                /\ response'[r].body.analysis = row.analysis
                /\ response'[r].body.repository.owner = request[r].key.owner
                /\ response'[r].body.repository.repo = request[r].key.repo
                /\ response'[r].body.repository.ref = request[r].key.ref
                /\ response'[r].body.repository.files_analyzed = row.files_analyzed
                /\ response'[r].body.repository.batches_processed = row.batches_processed
                /\ response'[r].body.repository.batches_failed = row.batches_failed
           /\ filtered_contents'[r] = <<>> /\ skipped_files'[r] = <<>>
           /\ batches'[r] = <<>> /\ batch_summaries'[r] = <<>>
           /\ calls'[r] = <<>>
           /\ db' = db /\ nextId' = nextId /\ tx' = tx /\ tx[r] = NoTx
           /\ persist'[r] = "none" /\ writerOf' = writerOf ]_vars

\* C12 witness: a request returned, as a cache hit and without any oracle
\* call, the report that the other request computed and committed.
C12_Witness ==
  \E r \in Reqs, s \in Reqs :
    /\ r # s
    /\ CacheHitDone(r)
    /\ FreshDone(s)
    /\ writerOf[request[r].key] = s
    /\ response[r].body.analysis = response[s].body.analysis
    /\ calls[r] = <<>>
    /\ batches[r] = <<>>

\* C13 as claimed: when a run that produced a non-empty report returns and no
\* call of its session to the store raised (lookup, INSERT or UPDATE, COMMIT),
\* the table holds a row of the request's key whose summary, report and
\* counters are those of the response just returned.
C13_RowEqualsResponseAfterRun ==
  [][ \A r \in Reqs :
        ( /\ pc[r] \in {"Persisting", "Flushing", "Committing"}
          /\ pc'[r] = "Done"
          /\ response'[r].status = "ok"
          /\ response'[r].body.analysis # <<>>
          /\ persist'[r] \notin {"fault", "IntegrityError"} )
        => \E row \in RowsOfKey(db', request[r].key) :
             /\ row.summary = response'[r].body.summary
             /\ row.analysis = response'[r].body.analysis
             /\ row.files_analyzed = response'[r].body.repository.files_analyzed
             /\ row.batches_processed = response'[r].body.repository.batches_processed
             /\ row.batches_failed = response'[r].body.repository.batches_failed ]_vars

\* The report the request computed, read off its oracle calls: the answer of
\* the synthesis call, or, when that call faulted, the fallback made of the
\* answers of the map calls.
ComputedReport(r) ==
  IF SynthesisCalls(r)[1].out # <<>> THEN SynthesisCalls(r)[1].out[1]
  ELSE FallbackHeader \o <<NL, NL>> \o BlankSeparated(Answers(MapCalls(r)))
         \o <<NL, NL>> \o FallbackNote

\* C14: a request whose durable write raised (the lookup for the upsert, the
\* INSERT or the UPDATE, the COMMIT, a uniqueness violation included) is not
\* failed: its session is rolled back and the caller got, with cached=false,
\* the result the request computed (the report of its oracle calls, the
\* counts of its map stage).
C14_WriteFaultKeepsResult ==
  \A r \in Reqs :
    persist[r] \in {"fault", "IntegrityError"} =>
      /\ pc[r] = "Done"
      /\ response[r].status = "ok"
      /\ response[r].body = result[r]
      /\ response[r].body.cached = FALSE
      /\ Len(SynthesisCalls(r)) = 1
      /\ response[r].body.analysis = ComputedReport(r)
      /\ response[r].body.repository.batches_processed = Len(MapCalls(r))
      /\ response[r].body.repository.batches_failed = NumFaulted(MapCalls(r))
      /\ tx[r] = NoTx

\* C14 witness: the only request that ran flushed its INSERT, the COMMIT
\* raised (the sequence moved on, the table did not), and the request
\* returned its result.
C14_Witness ==
  \E r \in Reqs :
    /\ \A s \in Reqs \ {r} : pc[s] = "Idle"
    /\ persist[r] = "fault"
    /\ nextId = Cardinality(db) + 2
    /\ FreshDone(r)
    /\ response[r].body.analysis # <<>>

\* C15: a force_reanalysis=false request that leaves CacheCheck without a
\* cache hit, in particular one whose lookup raised although a row of its key
\* is stored, is not failed by that: it goes on to the size filtering with no
\* response sent, no oracle call made and the table and the sessions as they
\* were.
C15_LookupFaultIsAMiss ==
  [][ \A r \in Reqs :
        ( /\ pc[r] = "CacheCheck"
          /\ ~request[r].force_reanalysis
          /\ pc'[r] \notin {"CacheCheck", "Done"} )
        => /\ pc'[r] = "Filtering"
           /\ response'[r] = NoResponse
           /\ calls'[r] = <<>>
           /\ persist'[r] = "none"
           /\ db' = db /\ tx' = tx /\ nextId' = nextId ]_vars

\* C15 witness: the only request that ran was not forced and a row of its key
\* was stored, so its lookup raised; it went through filtering, partitioning,
\* mapping and reducing, updated the row, and returned its fresh result.
C15_Witness ==
  \E r \in Reqs :
    /\ \A s \in Reqs \ {r} : pc[s] = "Idle"
    /\ ~request[r].force_reanalysis
    /\ FreshDone(r)
    /\ persist[r] = "updated"
    /\ Len(MapCalls(r)) >= 1
    /\ Len(SynthesisCalls(r)) = 1

\* C16: once the map loop has run over every batch and at least one call was
\* answered, the request is never Failed: it is reducing, persisting, or Done,
\* and when it is Done the caller got a successful response whose report is
\* the one the request computed (the synthesized text, or the fallback when
\* the synthesis call faulted, which is never empty), however the durable
\* write ended.
C16_OneBatchSucceededEndsDone ==
  \A r \in Reqs :
    (MapStageOver(r) /\ NumFaulted(MapCalls(r)) < Len(batches[r])) =>
      /\ pc[r] \in {"Reducing", "Persisting", "Flushing", "Committing", "Done"}
      /\ response[r].status # "error"
      /\ pc[r] = "Done" =>
           /\ response[r].status = "ok"
           /\ persist[r] \in {"inserted", "updated", "fault", "IntegrityError"}
           /\ Len(SynthesisCalls(r)) = 1
           /\ response[r].body.analysis = ComputedReport(r)
           /\ SynthesisFaulted(r) => response[r].body.analysis # <<>>

\* C16 witness: one of two batches succeeded, the synthesis call faulted, the
\* durable write raised, and the request is Done with the fallback report.
C16_Witness ==
  \E r \in Reqs :
    /\ pc[r] = "Done"
    /\ Len(batches[r]) = 2
    /\ NumFaulted(MapCalls(r)) = 1
    /\ SynthesisFaulted(r)
    /\ persist[r] = "fault"
    /\ response[r].status = "ok"
    /\ IsSuffix(FallbackNote, response[r].body.analysis)

\* C17 as claimed: in every successful response, fresh or cache hit, the
\* summary is the first line of the report carried by that same response.
C17_SummaryIsFirstLine ==
  \A r \in Reqs :
    (pc[r] = "Done" /\ response[r].status = "ok") =>
      response[r].body.summary = FirstLine(response[r].body.analysis)

\* C18 as claimed: every successful response carries a non-empty report,
\* whatever texts the oracle returned, the empty completion of the synthesis
\* call included.
C18_ReportNeverEmpty ==
  \A r \in Reqs :
    (pc[r] = "Done" /\ response[r].status = "ok") =>
      response[r].body.analysis # <<>>

\* The place of a stage in the order CacheCheck, (input validation,)
\* Partitioning, Mapping, Reducing, Persisting (lookup, flush, commit), Done.
StageRank(stage) ==
  CASE stage = "Idle" -> 0
    [] stage = "CacheCheck" -> 1
    [] stage = "Filtering" -> 2
    [] stage = "Partitioning" -> 3
    [] stage = "Mapping" -> 4
    [] stage = "Reducing" -> 5
    [] stage = "Persisting" -> 6
    [] stage = "Flushing" -> 7
    [] stage = "Committing" -> 8
    [] stage = "Done" -> 9
    [] stage = "Failed" -> 10

\* A step leaves the request where it is, moves it to the next stage, takes
\* it from CacheCheck (a hit) or from inside Persisting (a swallowed write
\* fault) to Done, or fails it; Done and Failed are never left.
StepsInOrder(r) ==
  /\ pc[r] \in {"Done", "Failed"} => pc'[r] = pc[r]
  /\ \/ pc'[r] = pc[r]
     \/ StageRank(pc'[r]) = StageRank(pc[r]) + 1
     \/ pc[r] = "CacheCheck" /\ pc'[r] = "Done"
     \/ pc[r] \in {"Persisting", "Flushing"} /\ pc'[r] = "Done"
     \/ pc'[r] = "Failed"

\* The step fails the request in Mapping, with no batch answered.
FailsInMapping(r) ==
  /\ pc[r] = "Mapping"
  /\ Len(SelectSeq(calls'[r], IsMapCall)) = Len(batches[r])
  /\ Answers(SelectSeq(calls'[r], IsMapCall)) = <<>>

\* The step fails the request in input validation, with no file left by the
\* size filtering.
FailsInValidation(r) ==
  /\ pc[r] = "Filtering"
  /\ filtered_contents'[r] = <<>>
  /\ Len(skipped_files'[r]) = Len(request[r].contents)

\* C19 as claimed: the request moves through the stages in order, never
\* backwards, and Failed is entered only from Mapping when no batch succeeded
\* or from input validation when the size filtering left no file.
C19_FailedOnlyFromMappingOrValidation ==
  [][ \A r \in Reqs :
        /\ StepsInOrder(r)
        /\ (pc[r] # "Failed" /\ pc'[r] = "Failed") =>
             (FailsInMapping(r) \/ FailsInValidation(r)) ]_vars

\* C19 as amended: the request moves through the stages in order, never
\* backwards, and Failed is entered only from Mapping when no batch succeeded,
\* from input validation when the size filtering left no file, or from the
\* start of Partitioning when the oracle credentials are missing.
C19_FailedAlsoFromMissingCredentials ==
  [][ \A r \in Reqs :
        /\ StepsInOrder(r)
        /\ (pc[r] # "Failed" /\ pc'[r] = "Failed") =>
             \/ FailsInMapping(r)
             \/ FailsInValidation(r)
             \/ /\ pc[r] = "Partitioning"
                /\ ~env.api_key
                /\ batches'[r] = <<>> ]_vars

\* C19 witness: with the oracle credentials missing, one request kept a file
\* through the size filtering and was failed at the start of Partitioning,
\* before any batch was made; the other went from CacheCheck to Done.
C19_Witness ==
  \E r \in Reqs, s \in Reqs :
    /\ CacheHitDone(r)
    /\ pc[s] = "Failed"
    /\ ~env.api_key
    /\ filtered_contents[s] # <<>>
    /\ batches[s] = <<>>
    /\ response[s] = ErrorResponse(ApiKeyNotSet)

\* Every file of the request is above the size ceiling (none, when it has none).
AllFilesOverCeiling(r) ==
  \A k \in 1..Len(request[r].contents) :
    request[r].contents[k].bytes > env.max_file_size_kb * 1024

\* C20: a request that missed the cache and whose files are all above the
\* size ceiling, or that runs without oracle credentials, never gets to the
\* map stage: it is filtering, about to partition, or Failed with an error
\* response, and it has made no oracle call and no durable write (no session
\* write pending, no write outcome, no commit of its own).
C20_FatalBeforeMapNoCallNoWrite ==
  \A r \in Reqs :
    ( /\ pc[r] \notin {"Idle", "CacheCheck"}
      /\ ~CacheHitDone(r)
      /\ (AllFilesOverCeiling(r) \/ ~env.api_key) )
    => /\ pc[r] \in {"Filtering", "Partitioning", "Failed"}
       /\ pc[r] = "Partitioning" => ~AllFilesOverCeiling(r)
       /\ pc[r] = "Failed" => response[r].status = "error"
       /\ calls[r] = <<>>
       /\ batches[r] = <<>>
       /\ persist[r] = "none"
       /\ tx[r] = NoTx
       /\ \A k \in Keys : writerOf[k] # r

\* C20 witness: both requests are Failed without an oracle call, one because
\* each of its two files is above the ceiling, the other, whose file passed
\* the filter, because the oracle credentials are missing.
C20_Witness ==
  \E r \in Reqs, s \in Reqs :
    /\ pc[r] = "Failed" /\ pc[s] = "Failed"
    /\ Len(request[r].contents) = 2
    /\ Len(skipped_files[r]) = 2
    /\ response[r] = ErrorResponse(AllFilesExceed)
    /\ filtered_contents[s] # <<>>
    /\ response[s] = ErrorResponse(ApiKeyNotSet)
    /\ calls[r] = <<>> /\ calls[s] = <<>>

\* ------------------------------------------------------------- C21 .. C30
\* C21: a call of get_cached_analysis made while the server cannot be
\* reached returns None, a call of set_cached_analysis made then returns
\* False, and neither raises to its caller: whatever calls came before, and
\* whether or not a client was connected earlier.
C21_NoConnectivityIsNoOp ==
  (cache_out.op \in {"get", "set"} /\ ~cache_out.up) =>
    /\ ~cache_out.raised
    /\ cache_out.op = "get" => cache_out.ret = <<>>
    /\ cache_out.op = "set" => cache_out.ret = FALSE

\* C21 witness: a client connected and an entry was stored; the server then
\* became unreachable, and a set returned False without raising.
C21_Witness ==
  /\ cache_out.op = "set"
  /\ ~cache_out.up
  /\ redis_client = "Redis"
  /\ connects = 1
  /\ \E k \in Keys : redis_data[k] # <<>>
  /\ cache_out.ret = FALSE
  /\ ~cache_out.raised

\* C22 as claimed: a connection is attempted only by a call (lazily), and once
\* the first attempt has failed (attempts were made and there is no client)
\* no later get, set or delete attempts a connection again.
C22_FailedFirstConnectDisablesClient ==
  [][ /\ connects' # connects => cache_out'.op \in {"get", "set", "delete"}
      /\ (redis_client = "None" /\ connects >= 1) => connects' = connects ]_vars

\* C23: the map calls of a request are one per batch, in batch order, each
\* for the files of its batch: the k-th call is the call of batch k, no batch
\* is called twice, and a fault does not end the loop (a request that has
\* left Mapping has called every batch).  When the stage has ended, the
\* summaries collected are the answers in order, the failure count is the
\* number of faulted calls, and the two add up to the number of batches.
C23_OneCallPerBatchInOrder ==
  \A r \in Reqs :
    /\ Len(MapCalls(r)) <= Len(batches[r])
    /\ \A k \in 1..Len(MapCalls(r)) :
         /\ MapCalls(r)[k].batch = k
         /\ MapCalls(r)[k].files = [j \in 1..Len(batches[r][k]) |-> batches[r][k][j].path]
    /\ pc[r] = "Mapping" => Len(MapCalls(r)) < Len(batches[r])
    /\ (batches[r] # <<>> /\ pc[r] # "Mapping") => MapStageOver(r)
    /\ MapStageOver(r) =>
         /\ batch_summaries[r] = Answers(MapCalls(r))
         /\ failed_batches[r] = NumFaulted(MapCalls(r))
         /\ Len(batch_summaries[r]) + failed_batches[r] = Len(batches[r])

\* C23 witness: the call of the first of two batches faulted, the second
\* batch was called all the same and answered, and the stage has just ended.
C23_Witness ==
  \E r \in Reqs :
    /\ pc[r] = "Reducing"
    /\ Len(batches[r]) = 2
    /\ MapCalls(r)[1].out = <<>>
    /\ MapCalls(r)[2].batch = 2
    /\ MapCalls(r)[2].out # <<>>
    /\ Len(batch_summaries[r]) = 1
    /\ failed_batches[r] = 1

\* C24: a synthesis call is the last call of its request and comes after the
\* map calls of all its batches, answered or faulted; the text it is given is
\* the answers of the map calls in batch order with a blank line between
\* them, and when it faults the fallback report lists that same text between
\* its heading and its note.
C24_SynthesisAfterAllMaps ==
  \A r \in Reqs :
    \A p \in 1..Len(calls[r]) :
      calls[r][p].kind = "synthesis" =>
        /\ p = Len(batches[r]) + 1
        /\ p = Len(calls[r])
        /\ \A q \in 1..(p - 1) : calls[r][q].kind = "map" /\ calls[r][q].batch = q
        /\ calls[r][p].input = BlankSeparated(Answers(SubSeq(calls[r], 1, p - 1)))
        /\ calls[r][p].out = <<>> =>
             result[r].analysis =
               FallbackHeader \o <<NL, NL>> \o calls[r][p].input \o <<NL, NL>> \o FallbackNote

\* C24 witness: both of two batches answered, then the synthesis call was
\* made with the first summary, a blank line, the second summary, and answered.
C24_Witness ==
  \E r \in Reqs :
    /\ Len(batches[r]) = 2
    /\ Len(calls[r]) = 3
    /\ calls[r][3].kind = "synthesis"
    /\ calls[r][3].out # <<>>
    /\ calls[r][1].out # <<>> /\ calls[r][2].out # <<>>
    /\ calls[r][3].input = calls[r][1].out[1] \o <<NL, NL>> \o calls[r][2].out[1]
    /\ calls[r][1].out[1] # calls[r][2].out[1]

\* The row of the key carries the values of the request's result.
RowCarries(row, r) ==
  /\ row.summary = result[r].summary
  /\ row.analysis = result[r].analysis
  /\ row.files_analyzed = result[r].repository.files_analyzed
  /\ row.batches_processed = result[r].repository.batches_processed
  /\ row.batches_failed = result[r].repository.batches_failed

\* C25: when requests do not overlap, no write meets a uniqueness violation
\* and the table never holds two rows of one key; the commit of a run whose
\* key had no row inserts the one row of the key, and the commit of a run
\* whose key had a row (forced or not) leaves that same row, same id, with
\* the values of the run; the rows of other keys are as they were.
C25_SequentialRunsKeepOneRowPerKey ==
  [][ \A r \in Reqs :
        /\ persist'[r] # "IntegrityError"
        /\ \A k \in Keys : Cardinality(RowsOfKey(db', k)) <= 1
        /\ (pc[r] = "Committing" /\ persist'[r] \in {"inserted", "updated"}) =>
             LET key == request[r].key
             IN  /\ \A k \in Keys \ {key} : RowsOfKey(db', k) = RowsOfKey(db, k)
                 /\ \E new \in RowsOfKey(db', key) :
                      /\ RowsOfKey(db', key) = {new}
                      /\ RowCarries(new, r)
                      /\ IF RowsOfKey(db, key) = {}
                           THEN persist'[r] = "inserted"
                           ELSE /\ persist'[r] = "updated"
                                /\ \E old \in RowsOfKey(db, key) : new.id = old.id ]_vars

\* C25 witness: one run inserted the row of a key, a later forced run for the
\* same key computed another report and updated it, and the key has one row,
\* which carries the later report.
C25_Witness ==
  \E r \in Reqs, s \in Reqs :
    /\ r # s
    /\ request[r].key = request[s].key
    /\ persist[r] = "inserted"
    /\ persist[s] = "updated"
    /\ request[s].force_reanalysis
    /\ result[s].analysis # result[r].analysis
    /\ \E row \in db : RowsOfKey(db, request[s].key) = {row} /\ RowCarries(row, s)

\* The positions of the request's files whose UTF-8 size is above the ceiling.
OverCeiling(r) ==
  { k \in 1..Len(request[r].contents) :
      request[r].contents[k].bytes > env.max_file_size_kb * 1024 }

\* The paths of the files at the given positions of the request.
PathsAt(r, positions) == { request[r].contents[k].path : k \in positions }

\* C26: once a request is past the size filtering, the files skipped are
\* exactly those whose UTF-8 size is above the ceiling and the files kept are
\* all the others, in request order, for the rest of the request; no file
\* above the ceiling is in any batch or in any map call, every other file is
\* in exactly one batch; and a fresh response reports files_skipped as the
\* number of files above the ceiling, files_analyzed as the number of the
\* others, and total_files as their sum.
C26_SizeFilterOnceBeforePartition ==
  \A r \in Reqs :
    LET n == Len(request[r].contents)
        kept == (1..n) \ OverCeiling(r)
    IN  /\ (pc[r] \notin {"Idle", "CacheCheck", "Filtering"} /\ ~CacheHitDone(r)) =>
             /\ { f.path : f \in { skipped_files[r][k] : k \in 1..Len(skipped_files[r]) } }
                  = PathsAt(r, OverCeiling(r))
             /\ Len(skipped_files[r]) = Cardinality(OverCeiling(r))
             /\ Len(filtered_contents[r]) = Cardinality(kept)
             /\ \A i \in 1..Len(filtered_contents[r]) :
                  /\ filtered_contents[r][i].path \in PathsAt(r, kept)
                  /\ \A j \in 1..(i - 1) :
                       filtered_contents[r][j].path < filtered_contents[r][i].path
        /\ \A b \in 1..Len(batches[r]) : PathsIn(batches[r][b]) \cap PathsAt(r, OverCeiling(r)) = {}
        /\ \A c \in 1..Len(calls[r]) :
             calls[r][c].kind = "map" =>
               \A j \in 1..Len(calls[r][c].files) :
                 calls[r][c].files[j] \notin PathsAt(r, OverCeiling(r))
        /\ batches[r] # <<>> =>
             \A k \in kept :
               Cardinality({ b \in 1..Len(batches[r]) :
                               request[r].contents[k].path \in PathsIn(batches[r][b]) }) = 1
        /\ FreshDone(r) =>
             /\ response[r].body.repository.files_skipped = Cardinality(OverCeiling(r))
             /\ response[r].body.repository.files_analyzed = Cardinality(kept)
             /\ response[r].body.repository.total_files = n
             /\ response[r].body.repository.files_analyzed
                  + response[r].body.repository.files_skipped
                  = response[r].body.repository.total_files

\* C26 witness: of two files the second was above the ceiling; the request
\* made one map call, for the first file only, and reported 1 analyzed, 1
\* skipped, 2 in total.
C26_Witness ==
  \E r \in Reqs :
    /\ FreshDone(r)
    /\ Len(request[r].contents) = 2
    /\ OverCeiling(r) = {2}
    /\ Len(MapCalls(r)) = 1
    /\ MapCalls(r)[1].files = <<request[r].contents[1].path>>
    /\ response[r].body.repository.files_analyzed = 1
    /\ response[r].body.repository.files_skipped = 1
    /\ response[r].body.repository.total_files = 2

\* The steps the handler can take for request r.
StepOf(r) ==
  \/ Start(r)
  \/ CacheCheck(r)
  \/ FilterFiles(r)
  \/ Partition(r)
  \/ MapBatch(r)
  \/ Reduce(r)
  \/ PersistRead(r)
  \/ PersistFlush(r)
  \/ PersistCommit(r)

UnderWay(r) == pc[r] \notin {"Idle", "Done", "Failed"}

\* The step is one of request r: its position, its batches or its oracle
\* calls change.
Moves(r) ==
  <<pc'[r], idx'[r], batches'[r], calls'[r]>> # <<pc[r], idx[r], batches[r], calls[r]>>

\* The step takes r to a later stage, or to the next batch of the map loop.
Advances(r) ==
  \/ StageRank(pc'[r]) > StageRank(pc[r])
  \/ /\ pc[r] = "Mapping"
     /\ pc'[r] = "Mapping"
     /\ idx'[r] = idx[r] + 1
     /\ idx'[r] <= Len(batches[r])

\* At most one oracle call per batch and one synthesis call.
CallsBounded(r) ==
  /\ Len(MapCalls(r)) <= Len(batches[r])
  /\ Len(SynthesisCalls(r)) <= 1
  /\ Len(calls[r]) = Len(MapCalls(r)) + Len(SynthesisCalls(r))

\* The write of r is held back by the uncommitted write of another request.
WaitsOnAnother(r) == pc[r] = "Flushing" /\ Blocked(r)

\* A request under way always has a step to take: every call it is about to
\* make returns or faults.
AlwaysAStep == \A r \in Reqs : UnderWay(r) => ENABLED StepOf(r)

\* Each step of a request advances it (Done and Failed are never left), and
\* leaves it with at most one oracle call per batch plus one synthesis call.
NoStepLoops(r) ==
  /\ Moves(r) => Advances(r) /\ CallsBounded(r)'
  /\ pc[r] \in {"Done", "Failed"} => ~Moves(r)

\* C27 as claimed: every request terminates in Done or Failed after at most
\* one oracle call per batch plus one synthesis call: no step loops, and no
\* step waits on another request.
C27_NoStepLoopsOrWaits ==
  /\ []AlwaysAStep
  /\ [][ \A r \in Reqs : NoStepLoops(r) /\ ~WaitsOnAnother(r) ]_vars

\* C27 as amended: every request terminates in Done or Failed after at most
\* one oracle call per batch plus one synthesis call: no step loops, and the
\* only wait on another request is the flush of the write waiting for the
\* uncommitted write of a request on the same key; that request is at its
\* COMMIT, waits for nothing itself, and its next step ends the wait.
C27_TerminatesWaitingOnlyForACommit ==
  /\ []AlwaysAStep
  /\ [][ \A r \in Reqs :
           /\ NoStepLoops(r)
           /\ WaitsOnAnother(r) =>
                \E s \in Reqs \ {r} :
                  /\ pc[s] = "Committing"
                  /\ request[s].key = request[r].key
                  /\ ~WaitsOnAnother(s)
                  /\ (pc'[s] # pc[s] => ~WaitsOnAnother(r)') ]_vars

\* C27 witness: a request over two batches has made its two map calls and
\* its synthesis call, and its write now waits for the uncommitted write of
\* the other request, which is at its COMMIT.
C27_Witness ==
  \E r \in Reqs, s \in Reqs :
    /\ WaitsOnAnother(r)
    /\ pc[s] = "Committing"
    /\ Len(batches[r]) = 2
    /\ Len(MapCalls(r)) = 2
    /\ Len(SynthesisCalls(r)) = 1

WriteFaults == {"fault", "IntegrityError"}

\* The step is the one in which the durable write of r raises.
WriteFaultsNow(r) == persist[r] = "none" /\ persist'[r] \in WriteFaults

\* The step answers the non-forced request s from the durable tier.
AnsweredFromStore(s) ==
  /\ pc[s] = "CacheCheck"
  /\ pc'[s] = "Done"

\* C29: the step in which the write of a request raises (the lookup, the
\* flush with its uniqueness violation, the COMMIT) leaves the table and the
\* other sessions as they were and the request's own session with nothing
\* pending; no step of a write attempt other than its successful COMMIT
\* changes the table, so a request whose write raised is never the writer of
\* a row; and a non-forced request answered after that gets the values of a
\* row the table holds for its key.
C29_FaultedWriteLeavesStoreAsItWas ==
  [][ \A r \in Reqs :
        /\ WriteFaultsNow(r) =>
             /\ db' = db
             /\ tx'[r] = NoTx
             /\ existing'[r] = <<>>
             /\ writerOf' = writerOf
             /\ \A s \in Reqs \ {r} : tx'[s] = tx[s]
        /\ ( /\ pc[r] \in {"Persisting", "Flushing", "Committing"}
             /\ pc'[r] # pc[r]
             /\ persist'[r] \notin {"inserted", "updated"} ) => db' = db
        /\ persist[r] \in WriteFaults =>
             /\ persist'[r] = persist[r]
             /\ \A k \in Keys : writerOf'[k] # r
             /\ \A s \in Reqs \ {r} :
                  AnsweredFromStore(s) =>
                    /\ db' = db
                    /\ \E row \in RowsOfKey(db, request[s].key) :
                         /\ response'[s].body.cached = TRUE
                         /\ response'[s].body.analysis = row.analysis
                         /\ response'[s].body.repository.files_analyzed
                              = row.files_analyzed
                         /\ response'[s].body.repository.batches_processed
                              = row.batches_processed
                         /\ response'[s].body.repository.batches_failed
                              = row.batches_failed ]_vars

\* C29 witness: a forced request computed a report other than the stored
\* one, its write raised, and the table still holds the row of the earlier
\* run; the non-forced request for the same key got the earlier report.
C29_Witness ==
  \E r \in Reqs, s \in Reqs :
    /\ r # s
    /\ request[r].force_reanalysis
    /\ persist[r] \in WriteFaults
    /\ FreshDone(r)
    /\ CacheHitDone(s)
    /\ request[s].key = request[r].key
    /\ db \in StoredBefore
    /\ \E row \in RowsOfKey(db, request[s].key) :
         /\ response[s].body.analysis = row.analysis
         /\ response[r].body.analysis # row.analysis

\* C30: with the default ceiling of 5 KB and the default budget of 6000,
\* every file kept by the size filtering has at most 5120 characters, so its
\* tokens + 100 are within the budget and it is never oversized; every batch
\* made from the kept files, and so every batch whose map call was made, has
\* an accumulated size (the tokens + 100 of its files) of at most 6000.
C30_DefaultsKeepEveryBatchWithinBudget ==
  \A r \in Reqs :
    /\ \A k \in 1..Len(filtered_contents[r]) :
         /\ filtered_contents[r][k].chars <= DefaultMaxFileSizeKb * 1024
         /\ estimate_tokens(filtered_contents[r][k].chars) + FileOverhead
              <= DefaultMaxTokensPerBatch
         /\ ~IsOversized(estimate_tokens(filtered_contents[r][k].chars),
                         DefaultMaxTokensPerBatch)
    /\ \A i \in 1..Len(batches[r]) :
         /\ SumTokens(batches[r][i]) <= DefaultMaxTokensPerBatch
         /\ \A k \in 1..Len(batches[r][i]) :
              \E j \in 1..Len(filtered_contents[r]) :
                batches[r][i][k] = filtered_contents[r][j]
    /\ \A c \in 1..Len(MapCalls(r)) :
         /\ MapCalls(r)[c].batch \in 1..Len(batches[r])
         /\ MapCalls(r)[c].files = PathsOf(batches[r][MapCalls(r)[c].batch])

\* C30 witness: of six files the one of 24004 characters was skipped and the
\* five of exactly 5 KB were kept; they make two batches, the first of four
\* files and 5520 tokens, and both map calls were made.
C30_Witness ==
  \E r \in Reqs :
    /\ env.max_file_size_kb = DefaultMaxFileSizeKb
    /\ Len(request[r].contents) = 6
    /\ \E k \in 1..Len(skipped_files[r]) : skipped_files[r][k].chars = 24004
    /\ Len(filtered_contents[r]) = 5
    /\ Len(batches[r]) = 2
    /\ Len(batches[r][1]) = 4
    /\ SumTokens(batches[r][1]) = 5520
    /\ Len(MapCalls(r)) = 2

====
